---- MODULE Spec2Model ----
(***************************************************************************)
(* Model of libmachine/provision/hypriot.go: the Hypriot provisioner.      *)
(*                                                                         *)
(* Every provisioner instance talks to its own host through the remote     *)
(* executor (SSHCommand).  The executor and the collaborators that live    *)
(* outside hypriot.go (SetHostname, makeDockerOptionsDir, ConfigureAuth,   *)
(* configureSwarm, mcnutils.WaitFor) answer nondeterministically.  Every   *)
(* remote command and collaborator call is recorded, in invocation order,  *)
(* in log; log, pkgCalls, given, optionsGiven and rendered are history     *)
(* variables that the program itself does not hold.                        *)
(***************************************************************************)
EXTENDS Integers, Sequences, FiniteSets, TLC

\* ---------------------------------------------------------------- bounds
\* provisioner instances, one per host
NumInsts == 2
\* longest list (labels, registries, mirrors, flags) of the caller's engine options
MaxEntries == 2
\* the caller stops rendering once it holds this many renderings of the same options
MaxRenders == 2
\* the caller stops invoking Provision once Packages holds this many entries
MaxPackages == 2
\* budget of the readiness poller (attempts)
WaitMaxAttempts == 3

Insts == 1..NumInsts

\* ----------------------------------------------------- program constants
DockerOptionsDirDefault == "/etc/docker"
DaemonOptionsFileDefault == "/etc/default/docker"
HypriotOsReleaseID == "raspbian"
DefaultStorageDriver == "overlay"
GenericSwarmImage == "swarm:latest"
HypriotSwarmImage == "hypriot/rpi-swarm:latest"

AptUpdateCmd == "sudo -E apt-get update"
MarkerCmd == "cat /etc/hypriot_release"
TypeDockerCmd == "type docker"
DockerStatusCmd == "sudo service docker status"
DockerVersionCmd == "sudo docker version"
AptRepoCmd == "if [ ! -f /etc/apt/sources.list.d/hypriot.list ] || grep -q repository.hypriot.com /etc/apt/sources.list.d/hypriot.list; then (curl https://packagecloud.io/gpg.key | sudo apt-key add -); echo 'deb https://packagecloud.io/Hypriot/Schatzkiste/debian/ wheezy main' | sudo tee /etc/apt/sources.list.d/hypriot.list; fi"

\* ---------------------------------------------------------- input values
PkgActions == {"Install", "Remove", "Upgrade"}
PkgNames == {"docker", "docker-hypriot", "apt-transport-https"}
SvcActions == {"start", "stop", "restart"}
SvcNames == {"docker"}
OsIDs == {"raspbian", "debian"}
SwarmImages == {GenericSwarmImage, "acme/swarm:1.0"}
StorageDrivers == {"", "aufs"}
Ports == {2376, 2377}

\* ------------------------------------------------------------ the driver
\* Driver.GetMachineName() and Driver.DriverName() of the instance's driver
MachineName(i) == IF i = 1 THEN "pi1" ELSE "pi" \o ToString(i)
DriverName(i) == IF i = 1 THEN "virtualbox" ELSE "generic"
\* the docker port of the instance's driver, which ConfigureAuth renders for
DriverPort(i) == CHOOSE p \in Ports : \A q \in Ports : p <= q

\* the first n entries of a list of the caller's: flag k of a list is named
\* after the list and its position, so that order is visible in the output
RECURSIVE ListOf(_, _)
ListOf(prefix, n) ==
  IF n = 0 THEN <<>> ELSE Append(ListOf(prefix, n - 1), prefix \o ToString(n))

\* the lengths of the four lists (labels, insecure registries, registry
\* mirrors, arbitrary flags), staggered so that every list is empty in one
\* input, single in another and long in a third
ListShapes ==
  {<<n, (n + 1) % (MaxEntries + 1), (n + 2) % (MaxEntries + 1), (n + 3) % (MaxEntries + 1)>> :
     n \in 0..MaxEntries}

EngineOptionsInputs ==
  {[StorageDriver |-> sd, Labels |-> ListOf("env=", sh[1]),
    InsecureRegistry |-> ListOf("registry", sh[2]),
    RegistryMirror |-> ListOf("mirror", sh[3]),
    ArbitraryFlags |-> ListOf("flag", sh[4])] :
     sd \in StorageDrivers, sh \in ListShapes}

ZeroEngineOptions ==
  [StorageDriver |-> "", Labels |-> <<>>, InsecureRegistry |-> <<>>,
   RegistryMirror |-> <<>>, ArbitraryFlags |-> <<>>]

ZeroAuthOptions ==
  [CaCertRemotePath |-> "", ServerCertRemotePath |-> "", ServerKeyRemotePath |-> ""]

AuthOptionsInputs ==
  {[CaCertRemotePath |-> "/tmp/ca.pem", ServerCertRemotePath |-> "/tmp/server.pem",
    ServerKeyRemotePath |-> "/tmp/server-key.pem"]}

ZeroSwarmOptions == [Image |-> ""]
SwarmOptionsInputs == {[Image |-> im] : im \in SwarmImages}

\* ------------------------------------------------------------ the errors
NoErr == [kind |-> "nil", cmd |-> ""]
\* the executor's error for a command: it carries the failing command
SSHError(cmd) == [kind |-> "RemoteCommandFailed", cmd |-> cmd]
CollabError(name) == [kind |-> "CollaboratorFailed", cmd |-> name]
TimeoutError == [kind |-> "Timeout", cmd |-> ""]
\* the error of template.Parse, returned at line 235
TemplateError == [kind |-> "TemplateRenderError", cmd |-> ""]

NoFrame == [name |-> "", action |-> "", packageAction |-> "", retTo |-> ""]
NoRet == [op |-> "", err |-> NoErr]
NoArg == [image |-> "", auth |-> ZeroAuthOptions]

\* ------------------------------------------------------------ the slices
\* the array behind a nil slice
NilArray == [id |-> 0, cap |-> 0]
\* the array behind the k-th label list the caller holds, of capacity cap;
\* a list handed to two provisioners is behind both
CallerArray(k, cap) == [id |-> 0 - k, cap |-> cap]
\* the array that instance i's append allocates when the old one is full
GrownArray(i, cap) == [id |-> i, cap |-> IF cap = 0 THEN 1 ELSE 2 * cap]

VARIABLES
  pc,            \* position of the instance's running operation, "idle" if none
  Packages,      \* GenericProvisioner.Packages
  SwarmOptions,  \* GenericProvisioner.SwarmOptions
  AuthOptions,   \* GenericProvisioner.AuthOptions
  EngineOptions, \* GenericProvisioner.EngineOptions
  OsReleaseInfo, \* GenericProvisioner.OsReleaseInfo.ID, "" while not fetched
  swarmLocal,    \* Provision's parameter swarmOptions (a copy, rewritten at line 212)
  pkgIdx,        \* index of Provision's loop over Packages, 0 outside Provision
  pkgFrame,      \* locals of the running Package call
  waitAttempts,  \* attempts made by the running WaitFor, 0 outside it
  ret,           \* what the last finished operation returned
  compatible,    \* the last CompatibleWithHost: its result and the marker probe's answer
  log,           \* commands and collaborator calls of the current operation, in order
  pkgCalls,      \* the Package invocations of the current operation, in order
  given,         \* the engine options as the caller last supplied them
  optionsGiven,  \* whether the caller has supplied options (Provision was invoked)
  rendered,      \* what GenerateDockerOptions returned since the caller last supplied options
  labelsArr,     \* the array behind EngineOptions.Labels: its identity and its capacity
  repoFile,      \* the host's /etc/apt/sources.list.d/hypriot.list
  aptKey         \* whether the host's apt keyring holds the packagecloud key

vars == <<pc, Packages, SwarmOptions, AuthOptions, EngineOptions, OsReleaseInfo,
          swarmLocal, pkgIdx, pkgFrame, waitAttempts, ret, compatible, log,
          pkgCalls, given, optionsGiven, rendered, labelsArr, repoFile, aptKey>>

provFields == <<Packages, SwarmOptions, AuthOptions, EngineOptions, labelsArr, OsReleaseInfo>>
locals == <<swarmLocal, pkgIdx, pkgFrame, waitAttempts>>
history == <<pkgCalls, given, optionsGiven, rendered>>
host == <<repoFile, aptKey>>

\* NewHypriotProvisioner: the state of every instance after construction
NewHypriotProvisioner ==
  /\ pc = [i \in Insts |-> "idle"]
  /\ Packages = [i \in Insts |-> <<>>]
  /\ SwarmOptions = [i \in Insts |-> ZeroSwarmOptions]
  /\ AuthOptions = [i \in Insts |-> ZeroAuthOptions]
  /\ EngineOptions = [i \in Insts |-> ZeroEngineOptions]
  /\ OsReleaseInfo = [i \in Insts |-> ""]
  /\ swarmLocal = [i \in Insts |-> ZeroSwarmOptions]
  /\ pkgIdx = [i \in Insts |-> 0]
  /\ pkgFrame = [i \in Insts |-> NoFrame]
  /\ waitAttempts = [i \in Insts |-> 0]
  /\ ret = [i \in Insts |-> NoRet]
  /\ compatible = [i \in Insts |-> [called |-> FALSE, marker |-> FALSE, result |-> FALSE]]
  /\ log = [i \in Insts |-> <<>>]
  /\ pkgCalls = [i \in Insts |-> <<>>]
  /\ given = [i \in Insts |-> ZeroEngineOptions]
  /\ optionsGiven = [i \in Insts |-> FALSE]
  /\ rendered = [i \in Insts |-> <<>>]
  /\ labelsArr = [i \in Insts |-> NilArray]

\* the provisioners constructed, each for a host not yet set up
Init ==
  /\ NewHypriotProvisioner
  /\ repoFile = [i \in Insts |-> "absent"]
  /\ aptKey = [i \in Insts |-> FALSE]

\* ------------------------------------------------------- the fake executor
\* one recorded invocation: kind is "ssh" or "call", site the place of the
\* pipeline (or the operation) that issued it, call the number of the Package
\* invocation it belongs to (0 outside Package)
Entry(kind, cmd, ok, site, call, arg) ==
  [kind |-> kind, cmd |-> cmd, ok |-> ok, site |-> site, call |-> call, arg |-> arg]

Record(i, e) == log' = [log EXCEPT ![i] = Append(@, e)]

\* ---------------------------------------------------- CompatibleWithHost
\* CompatibleWithHost without the comparison of the OS-release ID
CompatibleWithHostMarkerOnly(markerOk, id) == markerOk

\* CompatibleWithHost without the early return on a failed marker probe
CompatibleWithHostIdOnly(markerOk, id) == id = HypriotOsReleaseID

\* lines 46-52: false when the marker probe fails, else the comparison of the
\* fetched OS-release ID with the provisioner's OsReleaseID
CompatibleWithHostResult(markerOk, id) == markerOk /\ id = HypriotOsReleaseID

\* GenericProvisioner.SetOsReleaseInfo: detection stores the OS-release
\* information it fetched from the host before it probes the variant
SetOsReleaseInfo(i, id) ==
  /\ pc[i] = "idle"
  /\ OsReleaseInfo[i] = ""
  /\ OsReleaseInfo' = [OsReleaseInfo EXCEPT ![i] = id]
  /\ UNCHANGED <<host, pc, Packages, SwarmOptions, AuthOptions, EngineOptions, labelsArr, locals,
                 ret, compatible, log, history>>

\* CompatibleWithHost reading the OS release again once the marker is found
CallCompatibleWithHostProbingTwice(i) ==
  /\ pc[i] = "idle"
  /\ OsReleaseInfo[i] # ""
  /\ \E ok \in BOOLEAN :
       /\ log' = [log EXCEPT ![i] =
                    IF ok
                      THEN <<Entry("ssh", MarkerCmd, ok, "CompatibleWithHost", 0, NoArg),
                             Entry("ssh", "cat /etc/os-release", ok, "CompatibleWithHost", 0, NoArg)>>
                      ELSE <<Entry("ssh", MarkerCmd, ok, "CompatibleWithHost", 0, NoArg)>>]
       /\ compatible' = [compatible EXCEPT ![i] =
                    [called |-> TRUE, marker |-> ok,
                     result |-> CompatibleWithHostResult(ok, OsReleaseInfo[i])]]
  /\ ret' = [ret EXCEPT ![i] = [op |-> "CompatibleWithHost", err |-> NoErr]]
  /\ pkgCalls' = [pkgCalls EXCEPT ![i] = <<>>]
  /\ UNCHANGED <<host, pc, provFields, locals, given, optionsGiven, rendered>>

\* lines 46-52: one marker probe, the answer recorded, nothing else touched
CallCompatibleWithHost(i) ==
  /\ pc[i] = "idle"
  /\ OsReleaseInfo[i] # ""
  /\ \E ok \in BOOLEAN :
       /\ log' = [log EXCEPT ![i] =
                    <<Entry("ssh", MarkerCmd, ok, "CompatibleWithHost", 0, NoArg)>>]
       /\ compatible' = [compatible EXCEPT ![i] =
                    [called |-> TRUE, marker |-> ok,
                     result |-> CompatibleWithHostResult(ok, OsReleaseInfo[i])]]
  /\ ret' = [ret EXCEPT ![i] = [op |-> "CompatibleWithHost", err |-> NoErr]]
  /\ pkgCalls' = [pkgCalls EXCEPT ![i] = <<>>]
  /\ UNCHANGED <<host, pc, provFields, locals, given, optionsGiven, rendered>>

\* the registry's selection: a variant is handed to the caller, and Provision
\* invoked on it, only when its prober returned true
Selected(i) == compatible[i].called /\ compatible[i].result

\* ---------------------------------------------------------------- Service
\* lines 54-62
ServiceCmd(name, action) == "sudo service " \o name \o " " \o action

CallService(i, name, action) ==
  /\ pc[i] = "idle"
  /\ \E ok \in BOOLEAN :
       /\ log' = [log EXCEPT ![i] =
                    <<Entry("ssh", ServiceCmd(name, action), ok, "Service", 0, NoArg)>>]
       /\ ret' = [ret EXCEPT ![i] =
                    [op |-> "Service",
                     err |-> IF ok THEN NoErr ELSE SSHError(ServiceCmd(name, action))]]
  /\ pkgCalls' = [pkgCalls EXCEPT ![i] = <<>>]
  /\ UNCHANGED <<host, pc, provFields, locals, compatible, given, optionsGiven, rendered>>

\* ---------------------------------------------------------------- Package
\* lines 70-78: the apt-get verb of an action
PackageActionOf(action) ==
  CASE action = "Install" -> "install"
    [] action = "Remove" -> "remove"
    [] action = "Upgrade" -> "install"

\* Package with updateMetadata left set by every action
UpdateMetadataAlways(action) == TRUE

\* lines 67, 75: only Remove clears updateMetadata
UpdateMetadataOf(action) == action # "Remove"

\* Package without the name alias
ResolveNameVerbatim(name) == name

\* lines 80-83: the name alias
ResolveName(name) == IF name = "docker" THEN "docker-hypriot" ELSE name

\* line 92
PackageCmd(packageAction, name) ==
  "DEBIAN_FRONTEND=noninteractive sudo -E apt-get " \o packageAction \o " -y " \o name

\* lines 65-83: the locals of a Package call entered from retTo
PackageFrame(name, action, retTo) ==
  [name |-> ResolveName(name), action |-> action,
   packageAction |-> PackageActionOf(action), retTo |-> retTo]

\* line 85: where a Package call starts
PackageStart(action) == IF UpdateMetadataOf(action) THEN "Pkg_update" ELSE "Pkg_command"

\* Package invoked by the caller
CallPackage(i, name, action) ==
  /\ pc[i] = "idle"
  /\ pkgFrame' = [pkgFrame EXCEPT ![i] = PackageFrame(name, action, "idle")]
  /\ pc' = [pc EXCEPT ![i] = PackageStart(action)]
  /\ log' = [log EXCEPT ![i] = <<>>]
  /\ pkgCalls' = [pkgCalls EXCEPT ![i] = <<[name |-> name, action |-> action]>>]
  /\ ret' = [ret EXCEPT ![i] = NoRet]
  /\ UNCHANGED <<host, provFields, swarmLocal, pkgIdx, waitAttempts, compatible,
                 given, optionsGiven, rendered>>

\* where Provision continues after a Package call that returned nil
AfterPackage(site) ==
  IF site = "P_PackageATH" THEN "P_setHypriotAptRepo" ELSE "P_loop"

\* Package returns err: to the caller, or into Provision (lines 167-169 and
\* 181-183), which returns a non-nil err itself and otherwise goes on
PackageReturn(i, err) ==
  /\ pkgFrame' = [pkgFrame EXCEPT ![i] = NoFrame]
  /\ IF pkgFrame[i].retTo = "idle"
       THEN /\ pc' = [pc EXCEPT ![i] = "idle"]
            /\ ret' = [ret EXCEPT ![i] = [op |-> "Package", err |-> err]]
            /\ UNCHANGED <<pkgIdx, swarmLocal>>
       ELSE IF err # NoErr
         THEN /\ pc' = [pc EXCEPT ![i] = "idle"]
              /\ ret' = [ret EXCEPT ![i] = [op |-> "Provision", err |-> err]]
              /\ swarmLocal' = [swarmLocal EXCEPT ![i] = ZeroSwarmOptions]
              /\ pkgIdx' = [pkgIdx EXCEPT ![i] = 0]
         ELSE /\ pc' = [pc EXCEPT ![i] = AfterPackage(pkgFrame[i].retTo)]
              /\ pkgIdx' = [pkgIdx EXCEPT ![i] =
                              IF pkgFrame[i].retTo = "P_loop" THEN @ + 1 ELSE @]
              /\ UNCHANGED <<ret, swarmLocal>>

\* the site recorded for a command of the running Package call
PackageSite(i) == IF pkgFrame[i].retTo = "idle" THEN "Package" ELSE pkgFrame[i].retTo

\* lines 85-90: the metadata refresh
PkgUpdate(i) ==
  /\ pc[i] = "Pkg_update"
  /\ \E ok \in BOOLEAN :
       /\ Record(i, Entry("ssh", AptUpdateCmd, ok, PackageSite(i), Len(pkgCalls[i]), NoArg))
       /\ IF ok
            THEN /\ pc' = [pc EXCEPT ![i] = "Pkg_command"]
                 /\ UNCHANGED <<ret, pkgFrame, pkgIdx, swarmLocal>>
            ELSE PackageReturn(i, SSHError(AptUpdateCmd))
  /\ UNCHANGED <<host, provFields, waitAttempts, compatible, history>>

\* lines 92-98: the action command
PkgCommand(i) ==
  /\ pc[i] = "Pkg_command"
  /\ LET command == PackageCmd(pkgFrame[i].packageAction, pkgFrame[i].name)
     IN  \E ok \in BOOLEAN :
           /\ Record(i, Entry("ssh", command, ok, PackageSite(i), Len(pkgCalls[i]), NoArg))
           /\ PackageReturn(i, IF ok THEN NoErr ELSE SSHError(command))
  /\ UNCHANGED <<host, provFields, waitAttempts, compatible, history>>

\* -------------------------------------------------- GenerateDockerOptions
\* what the template engine writes: the template's text nodes and the values
\* of its actions, in order of emission
TextNode(s) == [node |-> "text", s |-> s]
ValueNode(s) == [node |-> "value", s |-> s]

\* {{ range list }}flag{{.}} {{ end }} of line 231
RECURSIVE RangeNodes(_, _)
RangeNodes(flag, list) ==
  IF list = <<>> THEN <<>>
  ELSE <<TextNode(flag), ValueNode(Head(list)), TextNode(" ")>> \o RangeNodes(flag, Tail(list))

\* lines 230-232 and 244: the execution of engineConfigTmpl on the context
EngineConfigNodes(dockerPort, authOptions, engineOptions) ==
  <<TextNode("\nDOCKER_OPTS='-H tcp://0.0.0.0:"), ValueNode(ToString(dockerPort)),
    TextNode(" -H unix:///var/run/docker.sock --storage-driver "),
    ValueNode(engineOptions.StorageDriver),
    TextNode(" --tlsverify --tlscacert "), ValueNode(authOptions.CaCertRemotePath),
    TextNode(" --tlscert "), ValueNode(authOptions.ServerCertRemotePath),
    TextNode(" --tlskey "), ValueNode(authOptions.ServerKeyRemotePath),
    TextNode(" ")>>
  \o RangeNodes("--label ", engineOptions.Labels)
  \o RangeNodes("--insecure-registry ", engineOptions.InsecureRegistry)
  \o RangeNodes("--registry-mirror ", engineOptions.RegistryMirror)
  \o RangeNodes("--", engineOptions.ArbitraryFlags)
  \o <<TextNode("'\n")>>

\* line 247: engineCfg.String(), the bytes written so far
RECURSIVE BufferString(_)
BufferString(nodes) ==
  IF nodes = <<>> THEN "" ELSE Head(nodes).s \o BufferString(Tail(nodes))

\* line 227
DriverNameLabel(i) == "provider=" \o DriverName(i)

\* line 228: the label list the provisioner holds after the append
LabelsAfterGenerate(i) == Append(EngineOptions[i].Labels, DriverNameLabel(i))

\* line 228: append writes into the array behind the list when it has room
AppendsInPlace(i) == Len(EngineOptions[i].Labels) < labelsArr[i].cap

\* line 228: the label list of instance j after instance i's append; the cell
\* that an append in place writes is a cell of every slice over the same array
LabelsSeenAfterAppend(j, i) ==
  LET written == Len(EngineOptions[i].Labels) + 1
  IN  IF j = i THEN LabelsAfterGenerate(i)
      ELSE IF /\ AppendsInPlace(i)
              /\ labelsArr[j].id = labelsArr[i].id
              /\ Len(EngineOptions[j].Labels) >= written
             THEN [EngineOptions[j].Labels EXCEPT ![written] = DriverNameLabel(i)]
             ELSE EngineOptions[j].Labels

\* what text/template answers to one call of GenerateDockerOptions: Parse
\* succeeds or fails; Execute writes every node, or fails at an action after
\* it wrote the nodes before it (failAt is that node's position, 0 for none)
TemplateOk == [parse |-> TRUE, failAt |-> 0]

\* the positions of the template's actions
ActionPositions(nodes) == {k \in 1..Len(nodes) : nodes[k].node = "value"}

\* line 244: what Execute has written into engineCfg when it returns
Written(nodes, tmpl) ==
  IF tmpl.failAt = 0 THEN nodes ELSE SubSeq(nodes, 1, tmpl.failAt - 1)

\* lines 238-249: the DockerOptions returned, with the nodes they were built
\* of and the error Execute returned at line 244, which is not looked at
GenerateResultWith(i, dockerPort, tmpl) ==
  LET nodes == EngineConfigNodes(dockerPort, AuthOptions[i],
                                 [EngineOptions[i] EXCEPT !.Labels = LabelsAfterGenerate(i)])
  IN  [port |-> dockerPort, nodes |-> Written(nodes, tmpl),
       EngineOptions |-> BufferString(Written(nodes, tmpl)),
       EngineOptionsPath |-> DaemonOptionsFileDefault,
       executeErr |-> tmpl.failAt # 0]

\* the DockerOptions returned when the template engine works
GenerateResult(i, dockerPort) == GenerateResultWith(i, dockerPort, TemplateOk)

\* lines 222-250 with the template engine answering tmpl: the label is
\* appended (line 228) before Parse; a Parse error is returned (lines 233-236)
\* with no DockerOptions; what Execute wrote is returned with a nil error
GenerateDockerOptionsWith(i, dockerPort, tmpl) ==
  /\ EngineOptions' = [j \in Insts |->
                        [EngineOptions[j] EXCEPT !.Labels = LabelsSeenAfterAppend(j, i)]]
  /\ labelsArr' = [labelsArr EXCEPT ![i] =
                    IF AppendsInPlace(i) THEN @ ELSE GrownArray(i, @.cap)]
  /\ rendered' = [rendered EXCEPT ![i] =
                    IF tmpl.parse THEN Append(@, GenerateResultWith(i, dockerPort, tmpl)) ELSE @]
  /\ ret' = [ret EXCEPT ![i] =
               [op |-> "GenerateDockerOptions",
                err |-> IF tmpl.parse THEN NoErr ELSE TemplateError]]

\* lines 222-250: the effect of one call on the provisioner
GenerateDockerOptions(i, dockerPort) ==
  /\ EngineOptions' = [j \in Insts |->
                        [EngineOptions[j] EXCEPT !.Labels = LabelsSeenAfterAppend(j, i)]]
  /\ labelsArr' = [labelsArr EXCEPT ![i] =
                    IF AppendsInPlace(i) THEN @ ELSE GrownArray(i, @.cap)]
  /\ rendered' = [rendered EXCEPT ![i] = Append(@, GenerateResult(i, dockerPort))]

\* GenerateDockerOptions invoked by the caller
CallGenerateDockerOptions(i, dockerPort) ==
  /\ pc[i] = "idle"
  /\ Len(rendered[i]) < MaxRenders
  /\ GenerateDockerOptions(i, dockerPort)
  /\ ret' = [ret EXCEPT ![i] = [op |-> "GenerateDockerOptions", err |-> NoErr]]
  /\ log' = [log EXCEPT ![i] = <<>>]
  /\ pkgCalls' = [pkgCalls EXCEPT ![i] = <<>>]
  /\ UNCHANGED <<host, pc, Packages, SwarmOptions, AuthOptions, OsReleaseInfo, locals,
                 compatible, given, optionsGiven>>

\* GenerateDockerOptions invoked by the caller, the template engine answering
\* in any way
CallGenerateDockerOptionsWith(i, dockerPort, tmpl) ==
  /\ pc[i] = "idle"
  /\ Len(rendered[i]) < MaxRenders
  /\ Len(EngineOptions[i].Labels) < MaxEntries + MaxRenders
  /\ GenerateDockerOptionsWith(i, dockerPort, tmpl)
  /\ log' = [log EXCEPT ![i] = <<>>]
  /\ pkgCalls' = [pkgCalls EXCEPT ![i] = <<>>]
  /\ UNCHANGED <<host, pc, Packages, SwarmOptions, AuthOptions, OsReleaseInfo, locals,
                 compatible, given, optionsGiven>>

\* ---------------------------------------------------------------- Provision
\* Provision returns err to the caller; its parameter and its loop variable
\* are gone with its frame
ProvisionReturn(i, err) ==
  /\ pc' = [pc EXCEPT ![i] = "idle"]
  /\ ret' = [ret EXCEPT ![i] = [op |-> "Provision", err |-> err]]
  /\ swarmLocal' = [swarmLocal EXCEPT ![i] = ZeroSwarmOptions]
  /\ pkgIdx' = [pkgIdx EXCEPT ![i] = 0]

\* a step whose error is dropped
StepOutcomeIgnoringFailure(i, ok, next, err) ==
  pc' = [pc EXCEPT ![i] = next] /\ UNCHANGED <<ret, swarmLocal, pkgIdx>>

\* "if err := step; err != nil { return err }": go on to next when the step
\* succeeded, return its error otherwise
StepOutcome(i, ok, next, err) ==
  IF ok THEN pc' = [pc EXCEPT ![i] = next] /\ UNCHANGED <<ret, swarmLocal, pkgIdx>>
        ELSE ProvisionReturn(i, err)

\* Provision without the storage-driver default
WithoutDefaultStorageDriver(engineOptions) == engineOptions

\* lines 153-155
WithDefaultStorageDriver(engineOptions) ==
  IF engineOptions.StorageDriver = ""
    THEN [engineOptions EXCEPT !.StorageDriver = DefaultStorageDriver]
    ELSE engineOptions

\* lines 148-155: Provision invoked by the caller on the selected provisioner
CallProvision(i, swarmOptions, authOptions, engineOptions, labelsArray) ==
  /\ pc[i] = "idle"
  /\ Selected(i)
  /\ Len(Packages[i]) < MaxPackages
  /\ SwarmOptions' = [SwarmOptions EXCEPT ![i] = swarmOptions]
  /\ AuthOptions' = [AuthOptions EXCEPT ![i] = authOptions]
  /\ EngineOptions' = [EngineOptions EXCEPT ![i] = WithDefaultStorageDriver(engineOptions)]
  /\ labelsArr' = [labelsArr EXCEPT ![i] = labelsArray]
  /\ swarmLocal' = [swarmLocal EXCEPT ![i] = swarmOptions]
  /\ pkgIdx' = [pkgIdx EXCEPT ![i] = 0]
  /\ waitAttempts' = [waitAttempts EXCEPT ![i] = 0]
  /\ pc' = [pc EXCEPT ![i] = "P_SetHostname"]
  /\ ret' = [ret EXCEPT ![i] = NoRet]
  /\ log' = [log EXCEPT ![i] = <<>>]
  /\ pkgCalls' = [pkgCalls EXCEPT ![i] = <<>>]
  /\ given' = [given EXCEPT ![i] = engineOptions]
  /\ optionsGiven' = [optionsGiven EXCEPT ![i] = TRUE]
  /\ rendered' = [rendered EXCEPT ![i] = <<>>]
  /\ UNCHANGED <<host, Packages, OsReleaseInfo, pkgFrame, compatible>>

\* lines 157-160: the generic SetHostname collaborator
ProvisionSetHostname(i) ==
  /\ pc[i] = "P_SetHostname"
  /\ \E ok \in BOOLEAN :
       /\ Record(i, Entry("call", "SetHostname", ok, "P_SetHostname", 0, NoArg))
       /\ StepOutcome(i, ok, "P_setHostnameHypriot", CollabError("SetHostname"))
  /\ UNCHANGED <<host, provFields, pkgFrame, waitAttempts, compatible, history>>

\* lines 129-138
SetHostnameHypriotCmd(hostname) ==
  "if [ -f /boot/occidentalis.txt ]; then sudo sed -i 's/^hostname.*=.*/hostname="
    \o hostname \o "/g' /boot/occidentalis.txt; fi"

\* lines 162-164
ProvisionSetHostnameHypriot(i) ==
  /\ pc[i] = "P_setHostnameHypriot"
  /\ LET command == SetHostnameHypriotCmd(MachineName(i))
     IN  \E ok \in BOOLEAN :
           /\ Record(i, Entry("ssh", command, ok, "P_setHostnameHypriot", 0, NoArg))
           /\ StepOutcome(i, ok, "P_PackageATH", SSHError(command))
  /\ UNCHANGED <<host, provFields, pkgFrame, waitAttempts, compatible, history>>

\* Provision enters Package(name, Install) at site
ProvisionPackage(i, name, site) ==
  /\ pkgFrame' = [pkgFrame EXCEPT ![i] = PackageFrame(name, "Install", site)]
  /\ pc' = [pc EXCEPT ![i] = PackageStart("Install")]
  /\ pkgCalls' = [pkgCalls EXCEPT ![i] = Append(@, [name |-> name, action |-> "Install"])]

\* lines 166-167
ProvisionPackageATH(i) ==
  /\ pc[i] = "P_PackageATH"
  /\ ProvisionPackage(i, "apt-transport-https", "P_PackageATH")
  /\ UNCHANGED <<host, provFields, swarmLocal, pkgIdx, waitAttempts, ret, compatible, log,
                 given, optionsGiven, rendered>>

\* what the repository file of a host can hold: nothing (no file), the old
\* repository.hypriot.com source, the packagecloud source line, other content
RepoFileStates == {"absent", "old", "current", "other"}

\* the script without its guard
AptRepoScriptUnguarded(file, key) == [file |-> "current", key |-> TRUE]

\* line 141, the script of AptRepoCmd run on a host: when the file is missing
\* or names repository.hypriot.com, the key is added and the file is
\* overwritten with the packagecloud source line; otherwise nothing is done
AptRepoScript(file, key) ==
  IF file = "absent" \/ file = "old"
    THEN [file |-> "current", key |-> TRUE]
    ELSE [file |-> file, key |-> key]

\* lines 140-146 and 171-174; a command that fails has not run on the host
ProvisionSetHypriotAptRepo(i) ==
  /\ pc[i] = "P_setHypriotAptRepo"
  /\ \E ok \in BOOLEAN :
       /\ Record(i, Entry("ssh", AptRepoCmd, ok, "P_setHypriotAptRepo", 0, NoArg))
       /\ StepOutcome(i, ok, "P_dockerDaemonInstalled", SSHError(AptRepoCmd))
       /\ LET after == IF ok THEN AptRepoScript(repoFile[i], aptKey[i])
                             ELSE [file |-> repoFile[i], key |-> aptKey[i]]
          IN  /\ repoFile' = [repoFile EXCEPT ![i] = after.file]
              /\ aptKey' = [aptKey EXCEPT ![i] = after.key]
  /\ UNCHANGED <<provFields, pkgFrame, waitAttempts, compatible, history>>

\* the probe's answer taken the wrong way round
PackagesAfterProbeInverted(packages, installed) ==
  IF installed THEN Append(packages, "docker") ELSE packages

\* lines 176-178: the pending package list after the tool-presence probe
PackagesAfterProbe(packages, installed) ==
  IF installed THEN packages ELSE Append(packages, "docker")

\* lines 111-118 and 176-178
ProvisionDockerDaemonInstalled(i) ==
  /\ pc[i] = "P_dockerDaemonInstalled"
  /\ \E ok \in BOOLEAN :
       /\ Record(i, Entry("ssh", TypeDockerCmd, ok, "P_dockerDaemonInstalled", 0, NoArg))
       /\ Packages' = [Packages EXCEPT ![i] = PackagesAfterProbe(@, ok)]
  /\ pkgIdx' = [pkgIdx EXCEPT ![i] = 1]
  /\ pc' = [pc EXCEPT ![i] = "P_loop"]
  /\ UNCHANGED <<host, SwarmOptions, AuthOptions, EngineOptions, labelsArr, OsReleaseInfo, swarmLocal,
                 pkgFrame, waitAttempts, ret, compatible, history>>

\* lines 180-184: the head of the loop over the pending packages
ProvisionLoop(i) ==
  /\ pc[i] = "P_loop"
  /\ IF pkgIdx[i] <= Len(Packages[i])
       THEN ProvisionPackage(i, Packages[i][pkgIdx[i]], "P_loop")
       ELSE /\ pc' = [pc EXCEPT ![i] = "P_dockerDaemonRunning"]
            /\ UNCHANGED <<pkgFrame, pkgCalls>>
  /\ UNCHANGED <<host, provFields, swarmLocal, pkgIdx, waitAttempts, ret, compatible, log,
                 given, optionsGiven, rendered>>

\* Provision that waits for a daemon found stopped instead of starting it
ProvisionDockerDaemonRunningBlocking(i) ==
  /\ pc[i] = "P_dockerDaemonRunning"
  /\ \E ok \in BOOLEAN :
       /\ Record(i, Entry("ssh", DockerStatusCmd, ok, "P_dockerDaemonRunning", 0, NoArg))
       /\ pc' = [pc EXCEPT ![i] = IF ok THEN "P_WaitFor" ELSE "P_blocked"]
  /\ UNCHANGED <<host, provFields, locals, ret, compatible, history>>

\* lines 120-127 and 186: the running probe decides whether the start is issued
ProvisionDockerDaemonRunning(i) ==
  /\ pc[i] = "P_dockerDaemonRunning"
  /\ \E ok \in BOOLEAN :
       /\ Record(i, Entry("ssh", DockerStatusCmd, ok, "P_dockerDaemonRunning", 0, NoArg))
       /\ pc' = [pc EXCEPT ![i] = IF ok THEN "P_WaitFor" ELSE "P_ServiceStart"]
  /\ UNCHANGED <<host, provFields, locals, ret, compatible, history>>

\* lines 187-189
ProvisionServiceStart(i) ==
  /\ pc[i] = "P_ServiceStart"
  /\ LET command == ServiceCmd("docker", "start")
     IN  \E ok \in BOOLEAN :
           /\ Record(i, Entry("ssh", command, ok, "P_ServiceStart", 0, NoArg))
           /\ StepOutcome(i, ok, "P_WaitFor", SSHError(command))
  /\ UNCHANGED <<host, provFields, pkgFrame, waitAttempts, compatible, history>>

\* mcnutils.WaitFor after an attempt: the probe's answer ends the wait with
\* success, the exhausted budget ends it with a timeout, otherwise it polls on
WaitForResult(responding, attempts) ==
  IF responding THEN "nil"
  ELSE IF attempts >= WaitMaxAttempts THEN "timeout" ELSE "again"

\* Provision dropping the error of WaitFor
ProvisionWaitForIgnoringTimeout(i) ==
  /\ pc[i] = "P_WaitFor"
  /\ \E ok \in BOOLEAN :
       /\ Record(i, Entry("ssh", DockerVersionCmd, ok, "P_WaitFor", 0, NoArg))
       /\ LET result == WaitForResult(ok, waitAttempts[i] + 1)
          IN  IF result = "again"
                THEN /\ waitAttempts' = [waitAttempts EXCEPT ![i] = @ + 1]
                     /\ UNCHANGED <<pc, ret, swarmLocal, pkgIdx>>
                ELSE /\ waitAttempts' = [waitAttempts EXCEPT ![i] = 0]
                     /\ pc' = [pc EXCEPT ![i] = "P_makeDockerOptionsDir"]
                     /\ UNCHANGED <<ret, swarmLocal, pkgIdx>>
  /\ UNCHANGED <<host, provFields, pkgFrame, compatible, history>>

\* lines 101-109 and 192-195: one attempt of the readiness poll; the poller's
\* count of attempts is gone when WaitFor returns
ProvisionWaitFor(i) ==
  /\ pc[i] = "P_WaitFor"
  /\ \E ok \in BOOLEAN :
       /\ Record(i, Entry("ssh", DockerVersionCmd, ok, "P_WaitFor", 0, NoArg))
       /\ LET result == WaitForResult(ok, waitAttempts[i] + 1)
          IN  IF result = "again"
                THEN /\ waitAttempts' = [waitAttempts EXCEPT ![i] = @ + 1]
                     /\ UNCHANGED <<pc, ret, swarmLocal, pkgIdx>>
                ELSE /\ waitAttempts' = [waitAttempts EXCEPT ![i] = 0]
                     /\ StepOutcome(i, result = "nil", "P_makeDockerOptionsDir", TimeoutError)
  /\ UNCHANGED <<host, provFields, pkgFrame, compatible, history>>

\* setRemoteAuthOptions: the auth options with the remote paths resolved
\* against the options directory
SetRemoteAuthOptions(authOptions) ==
  [authOptions EXCEPT
     !.CaCertRemotePath = DockerOptionsDirDefault \o "/ca.pem",
     !.ServerCertRemotePath = DockerOptionsDirDefault \o "/server.pem",
     !.ServerKeyRemotePath = DockerOptionsDirDefault \o "/server-key.pem"]

\* Provision without the rewrite of the auth options (line 201)
ProvisionMakeDockerOptionsDirKeepingAuth(i) ==
  /\ pc[i] = "P_makeDockerOptionsDir"
  /\ \E ok \in BOOLEAN :
       /\ Record(i, Entry("call", "makeDockerOptionsDir", ok, "P_makeDockerOptionsDir", 0, NoArg))
       /\ StepOutcome(i, ok, "P_ConfigureAuth", CollabError("makeDockerOptionsDir"))
  /\ UNCHANGED <<host, provFields, pkgFrame, waitAttempts, compatible, history>>

\* lines 197-201
ProvisionMakeDockerOptionsDir(i) ==
  /\ pc[i] = "P_makeDockerOptionsDir"
  /\ \E ok \in BOOLEAN :
       /\ Record(i, Entry("call", "makeDockerOptionsDir", ok, "P_makeDockerOptionsDir", 0, NoArg))
       /\ StepOutcome(i, ok, "P_ConfigureAuth", CollabError("makeDockerOptionsDir"))
       /\ AuthOptions' = [AuthOptions EXCEPT ![i] =
                            IF ok THEN SetRemoteAuthOptions(@) ELSE @]
  /\ UNCHANGED <<host, Packages, SwarmOptions, EngineOptions, labelsArr, OsReleaseInfo, pkgFrame,
                 waitAttempts, compatible, history>>

\* what the ConfigureAuth collaborator can do: fail before it renders the
\* daemon options, render them and fail afterwards, or render them and succeed
ConfigureAuthOutcomes == {"failed", "rendered-failed", "rendered-ok"}

\* lines 203-206
ProvisionConfigureAuth(i) ==
  /\ pc[i] = "P_ConfigureAuth"
  /\ \E outcome \in ConfigureAuthOutcomes, dockerPort \in {DriverPort(i)} :
       /\ Record(i, Entry("call", "ConfigureAuth", outcome = "rendered-ok", "P_ConfigureAuth", 0,
                          [image |-> "", auth |-> AuthOptions[i]]))
       /\ IF outcome = "failed"
            THEN UNCHANGED <<EngineOptions, labelsArr, rendered>>
            ELSE GenerateDockerOptions(i, dockerPort)
       /\ StepOutcome(i, outcome = "rendered-ok", "P_configureSwarm", CollabError("ConfigureAuth"))
  /\ UNCHANGED <<host, Packages, SwarmOptions, AuthOptions, OsReleaseInfo, pkgFrame,
                 waitAttempts, compatible, pkgCalls, given, optionsGiven>>

\* Provision without the substitution of the swarm image
ResolveSwarmImageVerbatim(image) == image

\* lines 211-213: the image handed to the swarm collaborator
ResolveSwarmImage(image) ==
  IF image = GenericSwarmImage THEN HypriotSwarmImage ELSE image

\* lines 210-219
ProvisionConfigureSwarm(i) ==
  /\ pc[i] = "P_configureSwarm"
  /\ LET image == ResolveSwarmImage(swarmLocal[i].Image)
     IN  \E ok \in BOOLEAN :
           /\ Record(i, Entry("call", "configureSwarm", ok, "P_configureSwarm", 0,
                              [image |-> image, auth |-> AuthOptions[i]]))
           /\ ProvisionReturn(i, IF ok THEN NoErr ELSE CollabError("configureSwarm"))
  /\ UNCHANGED <<host, provFields, pkgFrame, waitAttempts, compatible, history>>

\* ------------------------------------------------------ the specifications
\* the operations the caller invokes on provisioner i
Calls(i) ==
  \/ \E id \in OsIDs : SetOsReleaseInfo(i, id)
  \/ CallCompatibleWithHost(i)
  \/ \E name \in SvcNames, action \in SvcActions : CallService(i, name, action)
  \/ \E name \in PkgNames, action \in PkgActions : CallPackage(i, name, action)
  \/ \E dockerPort \in Ports : CallGenerateDockerOptions(i, dockerPort)
  \/ \E swarmOptions \in SwarmOptionsInputs, authOptions \in AuthOptionsInputs,
        engineOptions \in EngineOptionsInputs :
          CallProvision(i, swarmOptions, authOptions, engineOptions,
                        CallerArray(1, Len(engineOptions.Labels)))

\* the steps of the operation running on provisioner i
Steps(i) ==
  \/ PkgUpdate(i)
  \/ PkgCommand(i)
  \/ ProvisionSetHostname(i)
  \/ ProvisionSetHostnameHypriot(i)
  \/ ProvisionPackageATH(i)
  \/ ProvisionSetHypriotAptRepo(i)
  \/ ProvisionDockerDaemonInstalled(i)
  \/ ProvisionLoop(i)
  \/ ProvisionDockerDaemonRunning(i)
  \/ ProvisionServiceStart(i)
  \/ ProvisionWaitFor(i)
  \/ ProvisionMakeDockerOptionsDir(i)
  \/ ProvisionConfigureAuth(i)
  \/ ProvisionConfigureSwarm(i)

\* one provisioner in use; the other instances are constructed and left alone
Next == Calls(1) \/ Steps(1)

Spec == Init /\ [][Next]_vars

\* detection and Provision only: the run of one Provision after another
ProvisionCalls(i) ==
  \/ \E id \in OsIDs : SetOsReleaseInfo(i, id)
  \/ CallCompatibleWithHost(i)
  \/ \E swarmOptions \in SwarmOptionsInputs, authOptions \in AuthOptionsInputs,
        engineOptions \in EngineOptionsInputs :
          CallProvision(i, swarmOptions, authOptions, engineOptions,
                        CallerArray(1, Len(engineOptions.Labels)))

NextProvision == ProvisionCalls(1) \/ Steps(1)

\* Provision is sequential code: once it is invoked, each remote command and
\* each collaborator returns, and the code goes on to its next statement
SpecProvision == Init /\ [][NextProvision]_vars /\ WF_vars(Steps(1))

\* the provisioners constructed, the first one for a host whose repository
\* file and keyring are in any state
InitAnyHost ==
  /\ NewHypriotProvisioner
  /\ \E file \in RepoFileStates, key \in BOOLEAN :
       /\ repoFile = [i \in Insts |-> IF i = 1 THEN file ELSE "absent"]
       /\ aptKey = [i \in Insts |-> i = 1 /\ key]

\* one Provision after another on a host found in any state
SpecAnyHost == InitAnyHost /\ [][NextProvision]_vars

\* the engine options the caller of two provisioners holds: one label, in a
\* list with room for one more
SharedEngineOptions ==
  [StorageDriver |-> "aufs", Labels |-> ListOf("env=", 1), InsecureRegistry |-> <<>>,
   RegistryMirror |-> <<>>, ArbitraryFlags |-> <<>>]

\* the arrays behind the label list handed to instance i: the caller's own
\* list, which it hands to every provisioner, or a copy made for i
SharedLabelArrays(i) ==
  {CallerArray(k, Len(SharedEngineOptions.Labels) + 1) : k \in {1, 1 + i}}

\* the operations the caller of two provisioners invokes on provisioner i
TwoCalls(i) ==
  \/ SetOsReleaseInfo(i, HypriotOsReleaseID)
  \/ CallCompatibleWithHost(i)
  \/ CallGenerateDockerOptions(i, DriverPort(i))
  \/ \E swarmOptions \in SwarmOptionsInputs, authOptions \in AuthOptionsInputs,
        labelsArray \in SharedLabelArrays(i) :
          CallProvision(i, swarmOptions, authOptions, SharedEngineOptions, labelsArray)

\* the host of instance i has answered every command with success, the two
\* probes that decide what is installed and started apart
HostAnswers(i) ==
  \A k \in 1..Len(log[i]) :
    log[i][k].ok \/ log[i][k].cmd \in {TypeDockerCmd, DockerStatusCmd}

\* two provisioners, each on its goroutine and with its host, their steps
\* interleaved in any order; the hosts answer
NextTwo ==
  \E i \in 1..2 :
    /\ TwoCalls(i) \/ Steps(i)
    /\ HostAnswers(i)'

SpecTwo == Init /\ [][NextTwo]_vars

\* the answers of the template engine to a call on instance i
TemplateOutcomes(i, dockerPort) ==
  {TemplateOk, [parse |-> FALSE, failAt |-> 0]}
    \cup {[parse |-> TRUE, failAt |-> k] :
            k \in ActionPositions(GenerateResult(i, dockerPort).nodes)}

NextRender ==
  \E dockerPort \in Ports : \E tmpl \in TemplateOutcomes(1, dockerPort) :
    CallGenerateDockerOptionsWith(1, dockerPort, tmpl)

\* GenerateDockerOptions called on a provisioner as constructed, whatever
\* text/template answers
SpecRender == Init /\ [][NextRender]_vars

TypeOK ==
  \A i \in Insts :
    /\ repoFile[i] \in RepoFileStates
    /\ labelsArr[i].cap >= 0
    /\ Len(Packages[i]) <= MaxPackages
    /\ waitAttempts[i] < WaitMaxAttempts
    /\ pc[i] = "idle" => (pkgIdx[i] = 0 /\ pkgFrame[i] = NoFrame /\ waitAttempts[i] = 0)

\* ------------------------------------------------------------- the claims
ProvisionSites ==
  {"P_SetHostname", "P_setHostnameHypriot", "P_PackageATH", "P_setHypriotAptRepo",
   "P_dockerDaemonInstalled", "P_loop", "P_dockerDaemonRunning", "P_ServiceStart",
   "P_WaitFor", "P_makeDockerOptionsDir", "P_ConfigureAuth", "P_configureSwarm"}

\* the probes whose failure Provision takes for a negative answer
ProbeCmds == {TypeDockerCmd, DockerStatusCmd, DockerVersionCmd}

\* Provision of instance i has returned an error
ProvisionFailed(i) ==
  pc[i] = "idle" /\ ret[i].op = "Provision" /\ ret[i].err # NoErr

\* entry k of instance i's log is its last one and Provision returned an error
AbortedAt(i, k) == k = Len(log[i]) /\ ProvisionFailed(i)

\* the number of failed readiness probes among the first k recorded invocations
RECURSIVE FailedPolls(_, _)
FailedPolls(l, k) ==
  IF k = 0 THEN 0
  ELSE FailedPolls(l, k - 1)
         + (IF l[k].site = "P_WaitFor" /\ ~l[k].ok THEN 1 ELSE 0)

\* C1 as stated: whatever step the executor or a collaborator fails at,
\* Provision aborts there: the failed invocation is the last one recorded and
\* Provision has returned an error.
C1_AbortsAtAnyFailure ==
  \A i \in Insts : \A k \in 1..Len(log[i]) :
    (log[i][k].site \in ProvisionSites /\ ~log[i][k].ok) => AbortedAt(i, k)

\* C1 as amended: a failing command other than the three probes, a failing
\* collaborator, or the readiness probe failing for the last attempt of the
\* poller's budget aborts Provision at that invocation: it is the last one
\* recorded and Provision has returned an error.  A failing probe alone is a
\* negative answer.
C1_AbortsAtFirstHardFailure ==
  \A i \in Insts : \A k \in 1..Len(log[i]) :
    (/\ log[i][k].site \in ProvisionSites
     /\ ~log[i][k].ok
     /\ \/ log[i][k].cmd \notin ProbeCmds
        \/ log[i][k].cmd = DockerVersionCmd /\ FailedPolls(log[i], k) = WaitMaxAttempts)
      => AbortedAt(i, k)

\* a Provision that ran several steps and was aborted by a failing command
\* that is not a probe
C1_Witness ==
  \E i \in Insts :
    /\ ProvisionFailed(i)
    /\ Len(log[i]) >= 4
    /\ ~log[i][Len(log[i])].ok
    /\ log[i][Len(log[i])].cmd \notin ProbeCmds
    /\ \E k \in 1..(Len(log[i]) - 1) : ~log[i][k].ok

\* the Package invocation that entry e of instance i's log belongs to
CallOf(i, e) == pkgCalls[i][e.call]

\* Package invocation n of instance i's current operation has returned
PackageDone(i, n) == n < Len(pkgCalls[i]) \/ pc[i] \notin {"Pkg_update", "Pkg_command"}

\* C2: a Remove never issues the metadata refresh; an Install or Upgrade
\* issues it, successfully, right before its action command, and has issued it
\* by the time it returns; a failed refresh is the last command issued and its
\* error is what is returned.
C2_RefreshOnlyBeforeInstall ==
  \A i \in Insts :
    /\ \A k \in 1..Len(log[i]) :
         LET e == log[i][k]
         IN  e.call > 0 =>
               /\ e.cmd = AptUpdateCmd => CallOf(i, e).action # "Remove"
               /\ (e.cmd # AptUpdateCmd /\ CallOf(i, e).action \in {"Install", "Upgrade"})
                    => /\ k > 1
                       /\ log[i][k - 1].call = e.call
                       /\ log[i][k - 1].cmd = AptUpdateCmd
                       /\ log[i][k - 1].ok
               /\ (e.cmd = AptUpdateCmd /\ ~e.ok)
                    => /\ k = Len(log[i])
                       /\ pc[i] = "idle"
                       /\ ret[i].err = [kind |-> "RemoteCommandFailed", cmd |-> AptUpdateCmd]
    /\ \A n \in 1..Len(pkgCalls[i]) :
         (pkgCalls[i][n].action \in {"Install", "Upgrade"} /\ PackageDone(i, n))
           => \E k \in 1..Len(log[i]) : log[i][k].call = n /\ log[i][k].cmd = AptUpdateCmd

\* an Upgrade invoked by the caller that refreshed and then ran its command
C2_Witness ==
  \E i \in Insts :
    /\ pc[i] = "idle"
    /\ ret[i].op = "Package"
    /\ Len(log[i]) = 2
    /\ pkgCalls[i][1].action = "Upgrade"
    /\ log[i][1].cmd = AptUpdateCmd
    /\ log[i][2].ok

\* the apt-get command expected for a Package(name, action)
ExpectedPackageCmd(name, action) ==
  "DEBIAN_FRONTEND=noninteractive sudo -E apt-get "
    \o (IF action = "Remove" THEN "remove" ELSE "install")
    \o " -y "
    \o (IF name = "docker" THEN "docker-hypriot" ELSE name)

\* C3: the action command of every Package invocation, the caller's or
\* Provision's, names docker-hypriot when the package is docker and the given
\* name otherwise; no action command ever names the package docker.
C3_DockerAliased ==
  \A i \in Insts : \A k \in 1..Len(log[i]) :
    LET e == log[i][k]
    IN  (e.call > 0 /\ e.cmd # AptUpdateCmd) =>
          /\ e.cmd = ExpectedPackageCmd(CallOf(i, e).name, CallOf(i, e).action)
          /\ \A verb \in {"install", "remove"} :
               e.cmd # "DEBIAN_FRONTEND=noninteractive sudo -E apt-get " \o verb \o " -y docker"

\* Provision's loop over the pending packages has installed docker
C3_Witness ==
  \E i \in Insts : \E k \in 1..Len(log[i]) :
    /\ log[i][k].site = "P_loop"
    /\ log[i][k].call > 0
    /\ CallOf(i, log[i][k]).name = "docker"
    /\ log[i][k].cmd = "DEBIAN_FRONTEND=noninteractive sudo -E apt-get install -y docker-hypriot"

\* C4: CompatibleWithHost returns true exactly when the marker probe succeeded
\* and the fetched OS-release ID is raspbian, and it never returns an error.
C4_CompatibleIffBoth ==
  \A i \in Insts :
    ret[i].op = "CompatibleWithHost" =>
      /\ Len(log[i]) = 1
      /\ log[i][1].cmd = "cat /etc/hypriot_release"
      /\ compatible[i].result <=> (log[i][1].ok /\ OsReleaseInfo[i] = "raspbian")
      /\ ret[i].err = NoErr

\* CompatibleWithHost has returned true
C4_Witness ==
  \E i \in Insts :
    /\ ret[i].op = "CompatibleWithHost"
    /\ compatible[i].result
    /\ log[i][1].ok

RECURSIVE ValuesAfter(_, _)
ValuesAfter(nodes, flag) ==
  IF Len(nodes) < 2 THEN <<>>
  ELSE IF nodes[1].node = "text" /\ nodes[1].s = flag /\ nodes[2].node = "value"
         THEN <<nodes[2].s>> \o ValuesAfter(Tail(Tail(nodes)), flag)
         ELSE ValuesAfter(Tail(nodes), flag)

\* C6: as long as the caller supplies no new options, any two renderings for
\* the same port are the same text.
C6_RenderingDeterministic ==
  \A i \in Insts : \A a, b \in 1..Len(rendered[i]) :
    rendered[i][a].port = rendered[i][b].port
      => rendered[i][a].EngineOptions = rendered[i][b].EngineOptions

\* C7: every rendering holds one --label per label the caller supplied, in
\* order, followed by the provider label once, and one --insecure-registry,
\* --registry-mirror and --<flag> per entry of the caller's lists, in order.
C7_OneFlagPerEntry ==
  \A i \in Insts : \A k \in 1..Len(rendered[i]) :
    LET nodes == rendered[i][k].nodes
    IN  /\ ValuesAfter(nodes, "--label ")
             = given[i].Labels \o <<"provider=" \o DriverName(i)>>
        /\ ValuesAfter(nodes, "--insecure-registry ") = given[i].InsecureRegistry
        /\ ValuesAfter(nodes, "--registry-mirror ") = given[i].RegistryMirror
        /\ ValuesAfter(nodes, "--") = given[i].ArbitraryFlags

\* the storage driver a rendering must name for the caller's engine options
ExpectedStorageDriver(engineOptions) ==
  IF engineOptions.StorageDriver = "" THEN "overlay" ELSE engineOptions.StorageDriver

\* the storage driver(s) that a rendering names
RenderedStorageDriver(r) ==
  ValuesAfter(r.nodes, " -H unix:///var/run/docker.sock --storage-driver ")

\* C8 as stated: every rendering, whatever preceded it, names overlay when
\* the engine options the provisioner was given leave the storage driver
\* empty, and the given storage driver otherwise.
C8_StorageDriverAlways ==
  \A i \in Insts : \A k \in 1..Len(rendered[i]) :
    RenderedStorageDriver(rendered[i][k]) = <<ExpectedStorageDriver(given[i])>>

\* C8 as amended: the same for every rendering produced once Provision has
\* stored the caller's engine options.
C8_StorageDriverOnceProvisioned ==
  \A i \in Insts : \A k \in 1..Len(rendered[i]) :
    optionsGiven[i]
      => RenderedStorageDriver(rendered[i][k]) = <<ExpectedStorageDriver(given[i])>>

\* a rendering of engine options that were supplied without a storage driver
C8_Witness ==
  \E i \in Insts :
    /\ optionsGiven[i]
    /\ given[i].StorageDriver = ""
    /\ Len(rendered[i]) >= 1
    /\ RenderedStorageDriver(rendered[i][1]) = <<"overlay">>

\* the readiness probes recorded for instance i, in order
Polls(i) == SelectSeq(log[i], LAMBDA e : e.site = "P_WaitFor")

\* C9: the readiness wait makes at most its budget of attempts and stops at
\* the first success, so that N failures followed by a success are N + 1
\* attempts, after which Provision goes on to the options directory; while the
\* budget lasts a failure is followed by another attempt; when the last
\* attempt of the budget fails Provision returns the timeout and nothing
\* follows; the options directory, auth and swarm steps only ever run after a
\* successful probe.
C9_ReadinessGate ==
  \A i \in Insts :
    LET w == Polls(i)
        n == Len(w)
        last == Len(log[i])
    IN  /\ n <= WaitMaxAttempts
        /\ \A k \in 1..(n - 1) : ~w[k].ok
        /\ (n > 0 /\ w[n].ok /\ log[i][last].site = "P_WaitFor")
             => pc[i] = "P_makeDockerOptionsDir"
        /\ (n > 0 /\ n < WaitMaxAttempts /\ ~w[n].ok) => pc[i] = "P_WaitFor"
        /\ (n = WaitMaxAttempts /\ ~w[n].ok)
             => /\ ProvisionFailed(i)
                /\ ret[i].err = [kind |-> "Timeout", cmd |-> ""]
                /\ log[i][last].site = "P_WaitFor"
        /\ \A k \in 1..last :
             log[i][k].site \in {"P_makeDockerOptionsDir", "P_ConfigureAuth", "P_configureSwarm"}
               => (n > 0 /\ w[n].ok)

\* the probe failed twice or more, then succeeded, and the pipeline went on
C9_Witness ==
  \E i \in Insts :
    LET w == Polls(i)
    IN  /\ Len(w) >= 3
        /\ ~w[1].ok
        /\ w[Len(w)].ok
        /\ \E k \in 1..Len(log[i]) : log[i][k].site = "P_makeDockerOptionsDir"

\* the error that a recorded invocation surfaces when it fails
FailureOf(e) == IF e.kind = "ssh" THEN SSHError(e.cmd) ELSE CollabError(e.cmd)

\* C10: when Provision returns an error, the error belongs to the step that
\* failed and to no other: no invocation made by another step of the run
\* surfaces the same error value when it fails.
C10_ErrorIdentifiesStep ==
  \A i \in Insts :
    ProvisionFailed(i) =>
      \A k \in 1..Len(log[i]) :
        FailureOf(log[i][k]) = ret[i].err
          => log[i][k].site = log[i][Len(log[i])].site

\* Provision of instance i has returned nil
ProvisionSucceeded(i) ==
  pc[i] = "idle" /\ ret[i].op = "Provision" /\ ret[i].err = NoErr

\* what one step does to the pending package list (C13)
QueuesDockerIffAbsent(i) ==
  /\ Packages'[i] # Packages[i] => pc[i] = "P_dockerDaemonInstalled"
  /\ (pc[i] = "P_dockerDaemonInstalled" /\ pc'[i] # pc[i]) =>
       LET e == log'[i][Len(log'[i])]
       IN  /\ e.cmd = "type docker"
           /\ pc'[i] = "P_loop"
           /\ Packages'[i] = IF e.ok THEN Packages[i] ELSE Packages[i] \o <<"docker">>

\* what the running probe decides (C13)
StartsDockerIffNotRunning(i) ==
  LET last == Len(log[i])
  IN  /\ \A k \in 1..last :
           log[i][k].site = "P_dockerDaemonRunning" =>
             /\ log[i][k].cmd = "sudo service docker status"
             /\ IF k = last
                  THEN pc[i] = IF log[i][k].ok THEN "P_WaitFor" ELSE "P_ServiceStart"
                  ELSE (log[i][k + 1].cmd = "sudo service docker start") <=> ~log[i][k].ok
      /\ \A k \in 1..last :
           (log[i][k].site \in ProvisionSites /\ log[i][k].cmd = "sudo service docker start")
             => /\ k > 1
                /\ log[i][k - 1].site = "P_dockerDaemonRunning"
                /\ ~log[i][k - 1].ok
      /\ (last > 0 /\ log[i][last].site \in {"P_dockerDaemonInstalled", "P_dockerDaemonRunning"})
           => pc[i] # "idle"

\* C13: Provision appends docker to the pending packages exactly when the
\* tool-presence probe fails and at no other place; it issues the service start
\* exactly when the running probe fails; right after either probe, whatever it
\* answered, Provision is still running.
C13_ProbesDecideNeverAbort ==
  /\ [][\A i \in Insts : QueuesDockerIffAbsent(i)]_vars
  /\ [](\A i \in Insts : StartsDockerIffNotRunning(i))

\* the tool-presence probe failed, docker was installed, the running probe
\* failed and the service was started
C13_Witness ==
  \E i \in Insts : \E k, m \in 1..Len(log[i]) :
    /\ log[i][k].cmd = "type docker" /\ ~log[i][k].ok
    /\ log[i][m].site = "P_ServiceStart" /\ log[i][m].ok
    /\ Packages[i] = <<"docker">>

\* auth options whose remote paths lie in the options directory
ResolvedAuth(a) ==
  /\ a.CaCertRemotePath = "/etc/docker/ca.pem"
  /\ a.ServerCertRemotePath = "/etc/docker/server.pem"
  /\ a.ServerKeyRemotePath = "/etc/docker/server-key.pem"

\* C14: ConfigureAuth is invoked right after a successful makeDockerOptionsDir
\* and with the auth options resolved; configureSwarm is invoked right after a
\* successful ConfigureAuth and is given the same resolved auth options, which
\* are not the caller's.
C14_AuthOrdering ==
  \A i \in Insts :
    /\ pc[i] \in {"P_ConfigureAuth", "P_configureSwarm"} => ResolvedAuth(AuthOptions[i])
    /\ \A k \in 1..Len(log[i]) :
         LET e == log[i][k]
         IN  /\ e.site = "P_ConfigureAuth" =>
                  /\ k > 1
                  /\ log[i][k - 1].site = "P_makeDockerOptionsDir"
                  /\ log[i][k - 1].ok
                  /\ ResolvedAuth(e.arg.auth)
             /\ e.site = "P_configureSwarm" =>
                  /\ k > 1
                  /\ log[i][k - 1].site = "P_ConfigureAuth"
                  /\ log[i][k - 1].ok
                  /\ e.arg.auth = log[i][k - 1].arg.auth
                  /\ ResolvedAuth(e.arg.auth)
                  /\ e.arg.auth \notin AuthOptionsInputs

\* the swarm collaborator has been invoked
C14_Witness ==
  \E i \in Insts : \E k \in 1..Len(log[i]) :
    /\ log[i][k].site = "P_configureSwarm"
    /\ log[i][k].arg.auth.CaCertRemotePath = "/etc/docker/ca.pem"

\* C15: the swarm collaborator is given hypriot/rpi-swarm:latest when the
\* caller supplied swarm:latest, and the caller's image otherwise.
C15_SwarmImage ==
  \A i \in Insts : \A k \in 1..Len(log[i]) :
    log[i][k].site = "P_configureSwarm" =>
      log[i][k].arg.image =
        IF SwarmOptions[i].Image = "swarm:latest"
          THEN "hypriot/rpi-swarm:latest"
          ELSE SwarmOptions[i].Image

\* the swarm collaborator was given the variant's image
C15_Witness ==
  \E i \in Insts : \E k \in 1..Len(log[i]) :
    /\ log[i][k].site = "P_configureSwarm"
    /\ log[i][k].arg.image = "hypriot/rpi-swarm:latest"
    /\ SwarmOptions[i].Image = "swarm:latest"

\* the number of entries of a sequence that satisfy a test
CountIn(seq, Test(_)) == Cardinality({k \in 1..Len(seq) : Test(seq[k])})

\* C18: the pending package list never holds docker more than once, and no
\* invocation of Provision issues the install of the runtime package twice.
C18_DockerQueuedOnce ==
  \A i \in Insts :
    /\ CountIn(Packages[i], LAMBDA p : p = "docker") <= 1
    /\ CountIn(log[i], LAMBDA e :
         e.site = "P_loop"
           /\ e.cmd = "DEBIAN_FRONTEND=noninteractive sudo -E apt-get install -y docker-hypriot") <= 1

\* C19: a call of CompatibleWithHost issues the marker probe and nothing else
\* and leaves the packages, the options and the OS-release information of the
\* provisioner as they were, whatever the probe answers.
C19_CompatibleWithHostFrame ==
  [][\A i \in Insts :
       (ret'[i].op = "CompatibleWithHost" /\ <<log[i], ret[i], compatible[i]>> # <<log'[i], ret'[i], compatible'[i]>>)
         => /\ Len(log'[i]) = 1
            /\ log'[i][1].cmd = "cat /etc/hypriot_release"
            /\ Packages'[i] = Packages[i]
            /\ SwarmOptions'[i] = SwarmOptions[i]
            /\ AuthOptions'[i] = AuthOptions[i]
            /\ EngineOptions'[i] = EngineOptions[i]
            /\ OsReleaseInfo'[i] = OsReleaseInfo[i]]_vars

\* CompatibleWithHost was called, and found the marker, on a provisioner that
\* holds options and a pending package
C19_Witness ==
  \E i \in Insts :
    /\ ret[i].op = "CompatibleWithHost"
    /\ compatible[i].marker
    /\ optionsGiven[i]
    /\ Packages[i] # <<>>

\* C20: after a successful Provision the image in the provisioner's swarm
\* options is the image that the swarm collaborator was given.
C20_StoredImageIsApplied ==
  \A i \in Insts :
    ProvisionSucceeded(i) =>
      SwarmOptions[i].Image = log[i][Len(log[i])].arg.image

\* Provision of instance i has returned
ProvisionReturned(i) == pc[i] = "idle" /\ ret[i].op = "Provision"

\* a returned Provision gave nil exactly when its last step was a successful
\* configureSwarm, and an error exactly when its last step failed
ReturnsFirstFailureOrNil(i) ==
  ProvisionReturned(i) =>
    LET e == log[i][Len(log[i])]
    IN  /\ ret[i].err = NoErr <=> (e.site = "P_configureSwarm" /\ e.ok)
        /\ ret[i].err # NoErr <=> ~e.ok
        /\ ret[i].err = NoErr =>
             \A site \in ProvisionSites \ {"P_ServiceStart", "P_loop"} :
               \E k \in 1..Len(log[i]) : log[i][k].site = site

\* C11: every Provision that has been invoked returns, with nil exactly when
\* its last step, configureSwarm, succeeded after every step before it was
\* taken, and with an error exactly when its last step failed.
C11_ProvisionTerminates ==
  /\ [](\A i \in Insts : ReturnsFirstFailureOrNil(i))
  /\ \A i \in Insts : (pc[i] # "idle") ~> ProvisionReturned(i)

\* a Provision that polled up to the last attempt of the budget, installed
\* docker, started the service and returned nil
C11_Witness ==
  \E i \in Insts :
    /\ ProvisionSucceeded(i)
    /\ FailedPolls(log[i], Len(log[i])) = WaitMaxAttempts - 1
    /\ \E k \in 1..Len(log[i]) : log[i][k].site = "P_loop"
    /\ \E k \in 1..Len(log[i]) : log[i][k].site = "P_ServiceStart"

\* the step of instance i is a run of the repository script that succeeded
AptRepoRan(i) ==
  pc[i] = "P_setHypriotAptRepo" /\ pc'[i] = "P_dockerDaemonInstalled"

\* C16: a successful run of setHypriotAptRepo leaves the repository file and
\* the keyring untouched when the file holds the packagecloud source line or
\* other content, and otherwise (no file, or the old repository.hypriot.com
\* source) adds the key and writes the source line; in either case it leaves
\* the host in a state that a further run does not change.
C16_AptRepoIdempotent ==
  [][\A i \in Insts :
       AptRepoRan(i) =>
         /\ IF repoFile[i] \in {"current", "other"}
              THEN repoFile'[i] = repoFile[i] /\ aptKey'[i] = aptKey[i]
              ELSE repoFile'[i] = "current" /\ aptKey'[i]
         /\ repoFile'[i] \in {"current", "other"}
         /\ AptRepoScript(repoFile'[i], aptKey'[i]) = [file |-> repoFile'[i], key |-> aptKey'[i]]]_vars

\* the script has run a second time, in a Provision invoked after one that
\* had run it and gone on to queue docker
C16_Witness ==
  \E i \in Insts :
    /\ pc[i] = "P_dockerDaemonInstalled"
    /\ log[i][Len(log[i])].cmd = AptRepoCmd
    /\ log[i][Len(log[i])].ok
    /\ Packages[i] # <<>>
    /\ repoFile[i] = "current"
    /\ aptKey[i]

\* C17: no DockerOptions are returned from a call in which the execution of
\* the template failed, and the last call returned an error when it returned
\* no DockerOptions.
C17_RenderFailureReturned ==
  \A i \in Insts :
    /\ \A k \in 1..Len(rendered[i]) : ~rendered[i][k].executeErr
    /\ (ret[i].op = "GenerateDockerOptions" /\ rendered[i] = <<>>) => ret[i].err # NoErr

\* the state of instance j that belongs to it alone
OwnState(j) ==
  <<Packages[j], AuthOptions[j], EngineOptions[j], SwarmOptions[j], rendered[j]>>

\* C12: every step is the step of one instance and leaves the pending
\* packages, the auth, engine and swarm options and the rendered output of
\* every other instance as they were.
C12_InstancesIndependent ==
  [][\E i \in Insts : \A j \in Insts \ {i} : OwnState(j)' = OwnState(j)]_vars

====
